---- MODULE Spec2Model ----
(***************************************************************************)
(* Model of the Sentry release plugin (client.go: the REST client and the  *)
(* plugin's Execute hooks).                                                *)
(*                                                                         *)
(* Encoding of Go values:                                                  *)
(*   string      a sequence of non-empty text pieces; "" is <<>>, and      *)
(*               concatenation (Sprintf, Join, Buffer writes) is \o.       *)
(*               A commit SHA is a sequence of single characters.          *)
(*   error       the string of its message; nil is <<>>.                   *)
(*   time.Time   the string of its RFC3339 form; the zero time is <<>>.    *)
(*   template    the sequence of nodes text/template lexes the format      *)
(*               string into: text, a field action {{.Name}}, or an action *)
(*               that is never closed.                                     *)
(*   HTTP reply  what the transport and the server give back for one       *)
(*               request: the stage at which the exchange stops, the       *)
(*               status, the body text, whether the body is a JSON object, *)
(*               and that object's fields.                                 *)
(***************************************************************************)
EXTENDS Naturals, Integers, Sequences, FiniteSets, TLC

VARIABLES req, pc, calls, resp, hostErr, tracker, history

vars == <<req, pc, calls, resp, hostErr, tracker, history>>

----------------------------------------------------------------------------
(* Bounds of the model *)

MaxShaLen == 8

MaxProjects == 2

MaxInvocations == 2

MaxCommits == 2

----------------------------------------------------------------------------
(* Strings *)

\* strings.Join(list, sep)
RECURSIVE Join(_, _)
Join(list, sep) ==
    IF list = <<>> THEN <<>>
    ELSE IF Len(list) = 1 THEN list[1]
    ELSE list[1] \o sep \o Join(Tail(list), sep)

\* All sequences over S of length at most n.
SeqsUpTo(S, n) == UNION { [1..k -> S] : k \in 0..n }

----------------------------------------------------------------------------
(* Version template: formatVersion and shortSHA *)

Text(s)  == [t |-> "text", s |-> s]
Field(n) == [t |-> "field", s |-> n]
Unclosed == [t |-> "unclosed", s |-> "{{"]

TplVersion    == <<Field("Version")>>                              \* {{.Version}}
TplVersionSha == <<Field("Version"), Text("-"), Field("ShortSHA")>> \* {{.Version}}-{{.ShortSHA}}
TplTag        == <<Text("rel-"), Field("TagName")>>                \* rel-{{.TagName}}
TplBadParse   == <<Text("v"), Unclosed>>                           \* v{{.Version
TplBadExec    == <<Field("Version"), Field("Branch")>>             \* {{.Version}}{{.Branch}}

Templates == {TplVersion, TplVersionSha, TplTag, TplBadParse, TplBadExec}

ShortSHALen == 7

\* Variant: the SHA is never shortened.
shortSHA_KeepsWhole(sha) == sha

shortSHA(sha) ==
    IF Len(sha) > ShortSHALen THEN SubSeq(sha, 1, ShortSHALen) ELSE sha

\* template.New(name).Parse(format): fails on an action that is never closed;
\* the error names the template.
TemplateNewParse(name, format) ==
    IF \E i \in 1..Len(format) : format[i].t = "unclosed"
    THEN <<"template: ">> \o name \o <<":1: unclosed action">>
    ELSE <<>>

\* The parse of formatVersion: template.New("version").Parse(format).
TemplateParse(format) == TemplateNewParse(<<"version">>, format)

\* The parse of Validate: template.New("").Parse(format).
ValidateParse(format) == TemplateNewParse(<<>>, format)

\* The anonymous struct formatVersion hands to the template.
TemplateData(ctx) ==
    [Version  |-> ctx.Version,
     TagName  |-> ctx.TagName,
     ShortSHA |-> shortSHA(ctx.CommitSHA)]

\* tmpl.Execute: writes each node in turn; a field the data does not have is
\* an error.
RECURSIVE TemplateExecute(_, _)
TemplateExecute(format, data) ==
    IF format = <<>> THEN [str |-> <<>>, err |-> <<>>]
    ELSE LET n    == format[1]
             rest == TemplateExecute(Tail(format), data)
             here == IF n.t = "text" THEN <<n.s>> ELSE data[n.s]
         IN  IF n.t = "field" /\ n.s \notin DOMAIN data
             THEN [str |-> <<>>,
                   err |-> <<"template: version: can't evaluate field ", n.s>>]
             ELSE IF rest.err # <<>> THEN rest
             ELSE [str |-> here \o rest.str, err |-> <<>>]

formatVersion(format, ctx) ==
    LET perr == TemplateParse(format) IN
    IF perr # <<>> THEN [str |-> <<>>, err |-> perr]
    ELSE TemplateExecute(format, TemplateData(ctx))

----------------------------------------------------------------------------
(* Config.getProjects *)

getProjects(cfg) ==
    LET projects == cfg.Projects
        found    == \E i \in 1..Len(projects) : projects[i] = cfg.Project
    IN  IF cfg.Project # <<>> /\ ~found
        THEN Append(projects, cfg.Project)
        ELSE projects

----------------------------------------------------------------------------
(* SentryClient *)

ZeroObj ==
    [Version |-> <<>>, URL |-> <<>>, DateCreated |-> <<>>, Environment |-> <<>>]

StatusErrorFloor == 400

\* SentryClient.request after the request is built: reply.stage is where the
\* exchange stops ("new": the request cannot be built, "do": the transport
\* fails, "read": the body cannot be read, "ok": a response is read).
request(reply, wantResult) ==
    IF reply.stage = "new"
    THEN [err |-> <<"failed to create request: ">> \o reply.cause, obj |-> ZeroObj]
    ELSE IF reply.stage = "do"
    THEN [err |-> <<"failed to execute request: ">> \o reply.cause, obj |-> ZeroObj]
    ELSE IF reply.stage = "read"
    THEN [err |-> <<"failed to read response: ">> \o reply.cause, obj |-> ZeroObj]
    ELSE IF reply.status >= StatusErrorFloor
    THEN IF reply.json /\ reply.detail # <<>>
         THEN [err |-> <<"API error: ">> \o reply.detail
                         \o <<" (status ", ToString(reply.status), ")">>,
               obj |-> ZeroObj]
         ELSE [err |-> <<"API error: ">> \o reply.text
                         \o <<" (status ", ToString(reply.status), ")">>,
               obj |-> ZeroObj]
    ELSE IF wantResult /\ reply.text # <<>>
    THEN IF ~reply.json
         THEN [err |-> <<"failed to unmarshal response: invalid character">>,
               obj |-> ZeroObj]
         ELSE [err |-> <<>>, obj |-> reply.obj]
    ELSE [err |-> <<>>, obj |-> ZeroObj]

NoDeploy == [Environment |-> <<>>, Name |-> <<>>]

\* One remote call as the tracker sees it, with what the client got back.
Call(op, version, projects, commits, deploy, r) ==
    [op |-> op, version |-> version, projects |-> projects,
     commits |-> commits, deploy |-> deploy, err |-> r.err, obj |-> r.obj]

GetRelease(version, getReply) ==
    LET r == request(getReply, TRUE) IN
    [release |-> r.obj, err |-> r.err,
     calls |-> <<Call("get-release", version, <<>>, <<>>, NoDeploy, r)>>]

\* Variant: after the fallback the release decoded from the create response
\* is returned instead of the fetched one.
CreateRelease_KeepsCreated(version, projects, createReply, getReply) ==
    LET r  == request(createReply, TRUE)
        cc == <<Call("create-release", version, projects, <<>>, NoDeploy, r)>>
    IN  IF r.err # <<>>
        THEN LET g == GetRelease(version, getReply) IN
             IF g.err = <<>>
             THEN [release |-> r.obj, err |-> <<>>, calls |-> cc \o g.calls]
             ELSE [release |-> ZeroObj, err |-> r.err, calls |-> cc \o g.calls]
        ELSE [release |-> r.obj, err |-> <<>>, calls |-> cc]

\* Variant: when both calls fail the error of get-release is returned.
CreateRelease_ReturnsGetError(version, projects, createReply, getReply) ==
    LET r  == request(createReply, TRUE)
        cc == <<Call("create-release", version, projects, <<>>, NoDeploy, r)>>
    IN  IF r.err # <<>>
        THEN LET g == GetRelease(version, getReply) IN
             IF g.err = <<>>
             THEN [release |-> g.release, err |-> <<>>, calls |-> cc \o g.calls]
             ELSE [release |-> ZeroObj, err |-> g.err, calls |-> cc \o g.calls]
        ELSE [release |-> r.obj, err |-> <<>>, calls |-> cc]

\* Variant: a failed create is returned without the get-release fallback.
CreateRelease_NoFallback(version, projects, createReply, getReply) ==
    LET r  == request(createReply, TRUE)
        cc == <<Call("create-release", version, projects, <<>>, NoDeploy, r)>>
    IN  IF r.err # <<>>
        THEN [release |-> ZeroObj, err |-> r.err, calls |-> cc]
        ELSE [release |-> r.obj, err |-> <<>>, calls |-> cc]

CreateRelease(version, projects, createReply, getReply) ==
    LET r  == request(createReply, TRUE)
        cc == <<Call("create-release", version, projects, <<>>, NoDeploy, r)>>
    IN  IF r.err # <<>>
        THEN LET g == GetRelease(version, getReply) IN
             IF g.err = <<>>
             THEN [release |-> g.release, err |-> <<>>, calls |-> cc \o g.calls]
             ELSE [release |-> ZeroObj, err |-> r.err, calls |-> cc \o g.calls]
        ELSE [release |-> r.obj, err |-> <<>>, calls |-> cc]

SetCommits(version, commits, reply) ==
    LET r == request(reply, FALSE) IN
    [err |-> r.err,
     calls |-> <<Call("set-commits", version, <<>>, commits, NoDeploy, r)>>]

CreateDeploy(version, deploy, reply) ==
    LET r == request(reply, TRUE) IN
    [deploy |-> r.obj, err |-> r.err,
     calls |-> <<Call("create-deploy", version, <<>>, <<>>, deploy, r)>>]

FinalizeRelease(version, reply) ==
    LET r == request(reply, FALSE) IN
    [err |-> r.err,
     calls |-> <<Call("finalize", version, <<>>, <<>>, NoDeploy, r)>>]

----------------------------------------------------------------------------
(* extractCommits *)

\* time.Now().UTC().Format(time.RFC3339) at the moment of the invocation.
Now == <<"2024-12-19T10:00:00Z">>

\* Variant: the breaking changes are collected before the fixes.
extractCommits_BreakingBeforeFixes(cfg, ctx) ==
    IF ~ctx.Changes.present THEN <<>>
    ELSE LET repository == IF cfg.Commits.Repository = <<>>
                           THEN <<"unknown">>
                           ELSE cfg.Commits.Repository
             allCommits == ctx.Changes.Features \o ctx.Changes.Breaking
                           \o ctx.Changes.Fixes \o ctx.Changes.Other
         IN  [i \in 1..Len(allCommits) |->
                [ID         |-> allCommits[i].Hash,
                 Repository |-> repository,
                 Message    |-> allCommits[i].Description,
                 Timestamp  |-> Now]]

extractCommits(cfg, ctx) ==
    IF ~ctx.Changes.present THEN <<>>
    ELSE LET repository == IF cfg.Commits.Repository = <<>>
                           THEN <<"unknown">>
                           ELSE cfg.Commits.Repository
             allCommits == ctx.Changes.Features \o ctx.Changes.Fixes
                           \o ctx.Changes.Breaking \o ctx.Changes.Other
         IN  [i \in 1..Len(allCommits) |->
                [ID         |-> allCommits[i].Hash,
                 Repository |-> repository,
                 Message    |-> allCommits[i].Description,
                 Timestamp  |-> Now]]

----------------------------------------------------------------------------
(* plugin.ExecuteResponse and the handlers' return values *)

NoOutputs == <<>>

Response(success, message, error, outputs) ==
    [Success |-> success, Message |-> message, Error |-> error,
     Outputs |-> outputs]

\* What a handler returns: the response, the Go error (always nil), and the
\* remote calls it issued, in order.
Ret(response, issued) == [resp |-> response, err |-> <<>>, calls |-> issued]

FormatFailure(err) ==
    Ret(Response(FALSE, <<>>, <<"Failed to format version: ">> \o err, NoOutputs),
        <<>>)

----------------------------------------------------------------------------
(* handlePrePublish *)

PrePublishDryRun(version, projects) ==
    Ret(Response(TRUE,
                 <<"Would create Sentry release '">> \o version
                    \o <<"' for projects: ">> \o Join(projects, <<", ">>),
                 <<>>,
                 [version |-> version, projects |-> projects]),
        <<>>)

PrePublishLive(version, projects, createReply, getReply) ==
    LET c == CreateRelease(version, projects, createReply, getReply) IN
    IF c.err # <<>>
    THEN Ret(Response(FALSE, <<>>, <<"Failed to create release: ">> \o c.err,
                      NoOutputs),
             c.calls)
    ELSE Ret(Response(TRUE,
                      <<"Created Sentry release: ">> \o c.release.Version,
                      <<>>,
                      [version      |-> c.release.Version,
                       release_url  |-> c.release.URL,
                       date_created |-> c.release.DateCreated]),
             c.calls)

\* Variant: the dry-run test is left out.
handlePrePublish_IgnoresDryRun(cfg, ctx, dryRun, replies) ==
    LET v == formatVersion(cfg.VersionFormat, ctx) IN
    IF v.err # <<>> THEN FormatFailure(v.err)
    ELSE PrePublishLive(v.str, getProjects(cfg), replies.create, replies.get)

handlePrePublish(cfg, ctx, dryRun, replies) ==
    LET v == formatVersion(cfg.VersionFormat, ctx) IN
    IF v.err # <<>> THEN FormatFailure(v.err)
    ELSE LET projects == getProjects(cfg) IN
         IF dryRun THEN PrePublishDryRun(v.str, projects)
         ELSE PrePublishLive(v.str, projects, replies.create, replies.get)

----------------------------------------------------------------------------
(* handlePostPublish *)

NoStep == [results |-> <<>>, calls |-> <<>>]

\* Variant: the dry run does not announce the finalize step.
PostPublishDryRun_OmitsFinalize(cfg, version) ==
    LET results ==
            (IF cfg.SetCommits
             THEN << <<"Would associate commits with release">> >> ELSE <<>>)
         \o (IF cfg.CreateDeploy
             THEN << <<"Would create deploy for environment: ">>
                        \o cfg.Deploy.Environment >>
             ELSE <<>>)
    IN  Ret(Response(TRUE, Join(results, <<"; ">>), <<>>, [version |-> version]),
            <<>>)

PostPublishDryRun(cfg, version) ==
    LET results ==
            (IF cfg.SetCommits
             THEN << <<"Would associate commits with release">> >> ELSE <<>>)
         \o (IF cfg.CreateDeploy
             THEN << <<"Would create deploy for environment: ">>
                        \o cfg.Deploy.Environment >>
             ELSE <<>>)
         \o (IF cfg.Finalize
             THEN << <<"Would finalize release">> >> ELSE <<>>)
    IN  Ret(Response(TRUE, Join(results, <<"; ">>), <<>>, [version |-> version]),
            <<>>)

StepSetCommits(cfg, ctx, version, reply) ==
    IF ~cfg.SetCommits THEN NoStep
    ELSE LET commits == extractCommits(cfg, ctx) IN
         IF Len(commits) > 0
         THEN LET r == SetCommits(version, commits, reply) IN
              [results |->
                 << IF r.err # <<>>
                    THEN <<"Warning: Failed to set commits: ">> \o r.err
                    ELSE <<"Associated ", ToString(Len(commits)), " commits">> >>,
               calls |-> r.calls]
         ELSE NoStep

\* Variant: the create-deploy request is sent a second time.
StepCreateDeploy_CallsTwice(cfg, version, reply) ==
    IF ~cfg.CreateDeploy THEN NoStep
    ELSE LET r == CreateDeploy(version, cfg.Deploy, reply) IN
         [results |->
            << IF r.err # <<>>
               THEN <<"Warning: Failed to create deploy: ">> \o r.err
               ELSE <<"Created deploy: ">> \o r.deploy.Environment >>,
          calls |-> r.calls \o r.calls]

StepCreateDeploy(cfg, version, reply) ==
    IF ~cfg.CreateDeploy THEN NoStep
    ELSE LET r == CreateDeploy(version, cfg.Deploy, reply) IN
         [results |->
            << IF r.err # <<>>
               THEN <<"Warning: Failed to create deploy: ">> \o r.err
               ELSE <<"Created deploy: ">> \o r.deploy.Environment >>,
          calls |-> r.calls]

\* Variant: a failed finalize request is sent once more.
StepFinalize_Retries(cfg, version, reply) ==
    IF ~cfg.Finalize THEN NoStep
    ELSE LET r == FinalizeRelease(version, reply) IN
         [results |->
            << IF r.err # <<>>
               THEN <<"Warning: Failed to finalize release: ">> \o r.err
               ELSE <<"Finalized release">> >>,
          calls |-> IF r.err # <<>> THEN r.calls \o r.calls ELSE r.calls]

StepFinalize(cfg, version, reply) ==
    IF ~cfg.Finalize THEN NoStep
    ELSE LET r == FinalizeRelease(version, reply) IN
         [results |->
            << IF r.err # <<>>
               THEN <<"Warning: Failed to finalize release: ">> \o r.err
               ELSE <<"Finalized release">> >>,
          calls |-> r.calls]

\* Variant: the first failed sub-step ends the phase.
PostPublishLive_StopsAtFailure(cfg, ctx, version, replies) ==
    LET s == StepSetCommits(cfg, ctx, version, replies.commits)
        sFailed == \E i \in 1..Len(s.calls) : s.calls[i].err # <<>>
        d == IF sFailed THEN NoStep
             ELSE StepCreateDeploy(cfg, version, replies.deploy)
        dFailed == \E i \in 1..Len(d.calls) : d.calls[i].err # <<>>
        f == IF sFailed \/ dFailed THEN NoStep
             ELSE StepFinalize(cfg, version, replies.finalize)
        results == s.results \o d.results \o f.results
        final   == IF Len(results) = 0
                   THEN << <<"No actions taken">> >>
                   ELSE results
    IN  Ret(Response(TRUE, Join(final, <<"; ">>), <<>>, [version |-> version]),
            s.calls \o d.calls \o f.calls)

\* Variant: a failed sub-step fails the phase.
PostPublishLive_FailsOnWarning(cfg, ctx, version, replies) ==
    LET s == StepSetCommits(cfg, ctx, version, replies.commits)
        d == StepCreateDeploy(cfg, version, replies.deploy)
        f == StepFinalize(cfg, version, replies.finalize)
        issued  == s.calls \o d.calls \o f.calls
        results == s.results \o d.results \o f.results
        final   == IF Len(results) = 0
                   THEN << <<"No actions taken">> >>
                   ELSE results
    IN  IF \E i \in 1..Len(issued) : issued[i].err # <<>>
        THEN Ret(Response(FALSE, <<>>, Join(final, <<"; ">>), NoOutputs), issued)
        ELSE Ret(Response(TRUE, Join(final, <<"; ">>), <<>>, [version |-> version]),
                 issued)

\* Variant: the deploy is created for the event's version, not the rendered one.
PostPublishLive_DeployUsesEventVersion(cfg, ctx, version, replies) ==
    LET s == StepSetCommits(cfg, ctx, version, replies.commits)
        d == StepCreateDeploy(cfg, ctx.Version, replies.deploy)
        f == StepFinalize(cfg, version, replies.finalize)
        results == s.results \o d.results \o f.results
        final   == IF Len(results) = 0
                   THEN << <<"No actions taken">> >>
                   ELSE results
    IN  Ret(Response(TRUE, Join(final, <<"; ">>), <<>>, [version |-> version]),
            s.calls \o d.calls \o f.calls)

PostPublishLive(cfg, ctx, version, replies) ==
    LET s == StepSetCommits(cfg, ctx, version, replies.commits)
        d == StepCreateDeploy(cfg, version, replies.deploy)
        f == StepFinalize(cfg, version, replies.finalize)
        results == s.results \o d.results \o f.results
        final   == IF Len(results) = 0
                   THEN << <<"No actions taken">> >>
                   ELSE results
    IN  Ret(Response(TRUE, Join(final, <<"; ">>), <<>>, [version |-> version]),
            s.calls \o d.calls \o f.calls)

\* Variant: the dry-run branch is taken before the render error is looked at.
handlePostPublish_DryRunFirst(cfg, ctx, dryRun, replies) ==
    LET v == formatVersion(cfg.VersionFormat, ctx) IN
    IF dryRun THEN PostPublishDryRun(cfg, v.str)
    ELSE IF v.err # <<>> THEN FormatFailure(v.err)
    ELSE PostPublishLive(cfg, ctx, v.str, replies)

handlePostPublish(cfg, ctx, dryRun, replies) ==
    LET v == formatVersion(cfg.VersionFormat, ctx) IN
    IF v.err # <<>> THEN FormatFailure(v.err)
    ELSE IF dryRun THEN PostPublishDryRun(cfg, v.str)
    ELSE PostPublishLive(cfg, ctx, v.str, replies)

----------------------------------------------------------------------------
(* handleOnError and Execute *)

\* Variant: the hook renders the version first, as the other two hooks do.
handleOnError_RendersVersion(cfg, ctx, dryRun) ==
    LET v == formatVersion(cfg.VersionFormat, ctx) IN
    IF v.err # <<>> THEN FormatFailure(v.err)
    ELSE Ret(Response(TRUE, <<"Release failure noted (no Sentry action taken)">>,
                      <<>>, NoOutputs),
             <<>>)

handleOnError(cfg, ctx, dryRun) ==
    Ret(Response(TRUE, <<"Release failure noted (no Sentry action taken)">>,
                 <<>>, NoOutputs),
        <<>>)

\* Variant: a hook the plugin does not implement is an error to the host.
Execute_RejectsOtherHooks(r, replies) ==
    IF r.hook = "PrePublish"
    THEN handlePrePublish(r.cfg, r.ctx, r.dryRun, replies)
    ELSE IF r.hook = "PostPublish"
    THEN handlePostPublish(r.cfg, r.ctx, r.dryRun, replies)
    ELSE IF r.hook = "OnError"
    THEN handleOnError(r.cfg, r.ctx, r.dryRun)
    ELSE [resp  |-> Response(FALSE, <<>>, <<>>, NoOutputs),
          err   |-> <<"Hook ", r.hook, " not implemented">>,
          calls |-> <<>>]

Execute(r, replies) ==
    IF r.hook = "PrePublish"
    THEN handlePrePublish(r.cfg, r.ctx, r.dryRun, replies)
    ELSE IF r.hook = "PostPublish"
    THEN handlePostPublish(r.cfg, r.ctx, r.dryRun, replies)
    ELSE IF r.hook = "OnError"
    THEN handleOnError(r.cfg, r.ctx, r.dryRun)
    ELSE Ret(Response(TRUE, <<"Hook ", r.hook, " not implemented">>, <<>>,
                      NoOutputs),
             <<>>)

----------------------------------------------------------------------------
(* GetOrganization and Validate *)

GetOrganization(reply) ==
    LET r == request(reply, TRUE) IN
    [err |-> r.err,
     calls |-> <<Call("get-organization", <<>>, <<>>, <<>>, NoDeploy, r)>>]

\* One entry of the validation builder: vb.AddError(field, message).
ValidationError(field, message) == [Field |-> field, Message |-> message]

\* What Validate returns: the errors collected, in the order they were
\* added, the Go error (always nil) and the remote calls issued.
ValidateRet(errors, issued) == [resp |-> [Errors |-> errors], err |-> <<>>, calls |-> issued]

\* Variant: a missing token does not end the validation.
Validate_NoShortCircuit(cfg, orgReply) ==
    LET tokenErrs ==
            IF cfg.AuthToken = <<>>
            THEN <<ValidationError("auth_token", <<"Sentry auth token is required">>)>>
            ELSE <<>>
        orgErrs ==
            IF cfg.Org = <<>>
            THEN <<ValidationError("org", <<"Sentry organization is required">>)>>
            ELSE <<>>
        projectErrs ==
            IF Len(getProjects(cfg)) = 0
            THEN <<ValidationError("project", <<"At least one project is required">>)>>
            ELSE <<>>
        perr == IF cfg.VersionFormat # <<>> THEN ValidateParse(cfg.VersionFormat)
                ELSE <<>>
        formatErrs ==
            IF perr # <<>>
            THEN <<ValidationError("version_format",
                       <<"Invalid version format template: ">> \o perr)>>
            ELSE <<>>
        o == IF cfg.Org # <<>>
             THEN GetOrganization(orgReply)
             ELSE [err |-> <<>>, calls |-> <<>>]
        authErrs ==
            IF o.err # <<>>
            THEN <<ValidationError("auth_token",
                       <<"Failed to authenticate with Sentry: ">> \o o.err)>>
            ELSE <<>>
    IN  ValidateRet(tokenErrs \o orgErrs \o projectErrs \o formatErrs \o authErrs,
                    o.calls)

\* Variant: the local checks stop at the first error.
Validate_StopsAtFirstError(cfg, orgReply) ==
    IF cfg.AuthToken = <<>>
    THEN ValidateRet(<<ValidationError("auth_token",
                          <<"Sentry auth token is required">>)>>, <<>>)
    ELSE IF cfg.Org = <<>>
    THEN ValidateRet(<<ValidationError("org",
                          <<"Sentry organization is required">>)>>, <<>>)
    ELSE IF Len(getProjects(cfg)) = 0
    THEN ValidateRet(<<ValidationError("project",
                          <<"At least one project is required">>)>>, <<>>)
    ELSE LET perr == IF cfg.VersionFormat # <<>>
                     THEN ValidateParse(cfg.VersionFormat) ELSE <<>>
         IN  IF perr # <<>>
             THEN ValidateRet(<<ValidationError("version_format",
                       <<"Invalid version format template: ">> \o perr)>>, <<>>)
             ELSE LET o == GetOrganization(orgReply) IN
                  ValidateRet(IF o.err # <<>>
                              THEN <<ValidationError("auth_token",
                                        <<"Failed to authenticate with Sentry: ">>
                                           \o o.err)>>
                              ELSE <<>>,
                              o.calls)

Validate(cfg, orgReply) ==
    IF cfg.AuthToken = <<>>
    THEN ValidateRet(<<ValidationError("auth_token",
                          <<"Sentry auth token is required">>)>>, <<>>)
    ELSE LET orgErrs ==
                 IF cfg.Org = <<>>
                 THEN <<ValidationError("org", <<"Sentry organization is required">>)>>
                 ELSE <<>>
             projectErrs ==
                 IF Len(getProjects(cfg)) = 0
                 THEN <<ValidationError("project",
                            <<"At least one project is required">>)>>
                 ELSE <<>>
             perr == IF cfg.VersionFormat # <<>>
                     THEN ValidateParse(cfg.VersionFormat)
                     ELSE <<>>
             formatErrs ==
                 IF perr # <<>>
                 THEN <<ValidationError("version_format",
                            <<"Invalid version format template: ">> \o perr)>>
                 ELSE <<>>
             o == IF cfg.AuthToken # <<>> /\ cfg.Org # <<>>
                  THEN GetOrganization(orgReply)
                  ELSE [err |-> <<>>, calls |-> <<>>]
             authErrs ==
                 IF o.err # <<>>
                 THEN <<ValidationError("auth_token",
                            <<"Failed to authenticate with Sentry: ">> \o o.err)>>
                 ELSE <<>>
         IN  ValidateRet(orgErrs \o projectErrs \o formatErrs \o authErrs, o.calls)

----------------------------------------------------------------------------
(* Inputs: release events, configurations, requests, remote replies *)

ShaChars == <<"a", "b", "c", "1", "2", "3", "d", "e", "f", "4", "5", "6">>

\* Commit SHAs: empty, shorter than the short form, exactly as long, longer.
Shas == { SubSeq(ShaChars, 1, n) : n \in {0, 3, ShortSHALen, MaxShaLen} }

Commit(hash, description) == [Hash |-> hash, Description |-> description]

ChangeSet(present, features, fixes, breaking, other) ==
    [present |-> present, Features |-> features, Fixes |-> fixes,
     Breaking |-> breaking, Other |-> other]

NilChanges   == ChangeSet(FALSE, <<>>, <<>>, <<>>, <<>>)
EmptyChanges == ChangeSet(TRUE, <<>>, <<>>, <<>>, <<>>)
FeatAndFix   == ChangeSet(TRUE, <<Commit(<<"abc123">>, <<"Add feature">>)>>,
                                <<Commit(<<"def456">>, <<"Fix bug">>)>>,
                                <<>>, <<>>)
AllKinds     == ChangeSet(TRUE, <<Commit(<<"f1">>, <<"feat one">>),
                                  Commit(<<"f2">>, <<"feat two">>)>>,
                                <<Commit(<<"x1">>, <<"fix one">>)>>,
                                <<Commit(<<"b1">>, <<"break one">>)>>,
                                <<Commit(<<"o1">>, <<"chore one">>)>>)

Changes == {NilChanges, EmptyChanges, FeatAndFix, AllKinds}

Events ==
    { [Version |-> <<"1.2.3">>, TagName |-> <<"v1.2.3">>, CommitSHA |-> sha,
       Branch |-> <<"main">>, Changes |-> ch] : sha \in Shas, ch \in Changes }

Frontend == <<"frontend">>
Backend  == <<"backend">>
Api      == <<"api">>

ProjectLists == SeqsUpTo({Frontend, Backend}, MaxProjects)

\* The configuration parseConfig yields when only the token, the
\* organization and one project are set: every default of parseConfig.
DefaultConfig ==
    [AuthToken     |-> <<"test-token">>,
     Org           |-> <<"my-org">>,
     Project       |-> Api,
     Projects      |-> <<>>,
     URL           |-> <<"https://sentry.io">>,
     VersionFormat |-> TplVersion,
     Environment   |-> <<"production">>,
     SetCommits    |-> TRUE,
     Commits       |-> [Auto |-> TRUE, Repository |-> <<>>],
     CreateDeploy  |-> TRUE,
     Deploy        |-> [Environment |-> <<"production">>, Name |-> <<>>],
     Finalize      |-> TRUE]

\* Configurations that vary what handlePrePublish reads.
PreConfigs ==
    { [DefaultConfig EXCEPT !.VersionFormat = t, !.Project = p, !.Projects = ps] :
        t \in Templates, p \in {<<>>, Frontend, Api}, ps \in ProjectLists }

\* Configurations that vary what handlePostPublish reads.
PostConfigs ==
    { [DefaultConfig EXCEPT !.VersionFormat = t, !.SetCommits = sc,
                            !.CreateDeploy = cd, !.Finalize = fz,
                            !.Commits = [Auto |-> TRUE, Repository |-> repo]] :
        t \in Templates, sc \in BOOLEAN, cd \in BOOLEAN, fz \in BOOLEAN,
        repo \in {<<>>, <<"org/repo">>} }

\* Configurations for the hooks that read nothing of the configuration.
OtherConfigs ==
    { [DefaultConfig EXCEPT !.VersionFormat = t, !.SetCommits = b,
                            !.CreateDeploy = b, !.Finalize = b] :
        t \in Templates, b \in BOOLEAN }

Request(hook, cfg, ctx, dryRun) ==
    [hook |-> hook, cfg |-> cfg, ctx |-> ctx, dryRun |-> dryRun]

Requests ==
         { Request("PrePublish", c, e, d) :
             c \in PreConfigs, e \in Events, d \in BOOLEAN }
    \cup { Request("PostPublish", c, e, d) :
             c \in PostConfigs, e \in Events, d \in BOOLEAN }
    \cup { Request(h, c, e, d) :
             h \in {"OnError", "PostPlan"}, c \in OtherConfigs,
             e \in Events, d \in BOOLEAN }

Reply(stage, cause, status, text, json, detail, obj) ==
    [stage |-> stage, cause |-> cause, status |-> status, text |-> text,
     json |-> json, detail |-> detail, obj |-> obj]

ReleaseA == [Version |-> <<"1.2.3">>, URL |-> <<"https://sentry.io/releases/a">>,
             DateCreated |-> <<"2024-12-19T09:00:00Z">>, Environment |-> <<>>]
ReleaseB == [Version |-> <<"1.2.3+old">>, URL |-> <<"https://sentry.io/releases/b">>,
             DateCreated |-> <<"2024-12-01T00:00:00Z">>, Environment |-> <<>>]
DeployA  == [Version |-> <<>>, URL |-> <<>>, DateCreated |-> <<>>,
             Environment |-> <<"production">>]

OkReleaseA == Reply("ok", <<>>, 201, <<"{release a}">>, TRUE, <<>>, ReleaseA)
OkReleaseB == Reply("ok", <<>>, 200, <<"{release b}">>, TRUE, <<>>, ReleaseB)
OkDeploy   == Reply("ok", <<>>, 201, <<"{deploy}">>, TRUE, <<>>, DeployA)
OkNotJson  == Reply("ok", <<>>, 200, <<"<html>">>, FALSE, <<>>, ZeroObj)
Conflict   == Reply("ok", <<>>, 409, <<"{detail}">>, TRUE,
                    <<"Release already exists">>, ZeroObj)
NotFound   == Reply("ok", <<>>, 404, <<"Not Found">>, FALSE, <<>>, ZeroObj)
Timeout    == Reply("do", <<"context deadline exceeded">>, 0, <<>>, FALSE,
                    <<>>, ZeroObj)

OkEmpty    == Reply("ok", <<>>, 204, <<>>, FALSE, <<>>, ZeroObj)
BadRequest == Reply("ok", <<>>, 400, <<"{}">>, TRUE, <<>>, ZeroObj)
Forbidden  == Reply("ok", <<>>, 403, <<"{detail}">>, TRUE,
                    <<"You do not have permission">>, ZeroObj)
ReadFailed == Reply("read", <<"unexpected EOF">>, 200, <<>>, FALSE, <<>>, ZeroObj)
BadURL     == Reply("new", <<"invalid URL">>, 0, <<>>, FALSE, <<>>, ZeroObj)

PreReplies  == {OkReleaseA, OkReleaseB, OkEmpty, OkNotJson, Conflict,
                BadRequest, NotFound, Timeout, ReadFailed, BadURL}
PostReplies == {OkDeploy, OkNotJson, Forbidden, NotFound, Timeout}

----------------------------------------------------------------------------
(* The state machine: the host hands the plugin one request; Execute runs    *)
(* the hook's handler to its end and returns the response.                   *)

NoResponse == Response(FALSE, <<>>, <<>>, NoOutputs)

\* The remote tracker as far as the plugin can change it: the release records
\* of the organization and the deploy records, oldest first.
EmptyTracker == [releases |-> <<>>, deploys |-> <<>>]

Init ==
    /\ req \in Requests
    /\ pc = "ready"
    /\ calls = <<>>
    /\ resp = NoResponse
    /\ hostErr = <<>>
    /\ tracker = EmptyTracker
    /\ history = <<>>

\* The handler's return value reaches the host.
Return(r) ==
    /\ resp' = r.resp
    /\ hostErr' = r.err
    /\ calls' = r.calls
    /\ pc' = "done"
    /\ UNCHANGED <<req, tracker, history>>

NoReplies == [none |-> TRUE]

ExecutePrePublish ==
    /\ pc = "ready"
    /\ req.hook = "PrePublish"
    /\ \E createReply \in PreReplies, getReply \in PreReplies :
         Return(Execute(req, [create |-> createReply, get |-> getReply]))

ExecutePostPublish ==
    /\ pc = "ready"
    /\ req.hook = "PostPublish"
    /\ \E commitsReply \in PostReplies, deployReply \in PostReplies,
          finalizeReply \in PostReplies :
         Return(Execute(req, [commits |-> commitsReply, deploy |-> deployReply,
                              finalize |-> finalizeReply]))

ExecuteOnError ==
    /\ pc = "ready"
    /\ req.hook = "OnError"
    /\ Return(Execute(req, NoReplies))

ExecuteOtherHook ==
    /\ pc = "ready"
    /\ req.hook \notin {"PrePublish", "PostPublish", "OnError", "Validate"}
    /\ Return(Execute(req, NoReplies))

Next ==
    \/ ExecutePrePublish
    \/ ExecutePostPublish
    \/ ExecuteOnError
    \/ ExecuteOtherHook

Spec == Init /\ [][Next]_vars

----------------------------------------------------------------------------
(* Validate as a second entry point of the plugin *)

\* Configurations that vary what Validate reads; <<>> is the empty format.
ValidateConfigs ==
    { [DefaultConfig EXCEPT !.AuthToken = tok, !.Org = org, !.Project = p,
                            !.Projects = ps, !.VersionFormat = t] :
        tok \in {<<>>, <<"test-token">>}, org \in {<<>>, <<"my-org">>},
        p \in {<<>>, Api}, ps \in ProjectLists, t \in Templates \cup {<<>>} }

ValidateRequests == { [hook |-> "Validate", cfg |-> c] : c \in ValidateConfigs }

OkOrg == Reply("ok", <<>>, 200, <<"{org}">>, TRUE, <<>>, ZeroObj)
Unauthorized == Reply("ok", <<>>, 401, <<"{detail}">>, TRUE,
                      <<"Invalid token">>, ZeroObj)

OrgReplies == {OkOrg, OkEmpty, OkNotJson, Unauthorized, NotFound, Timeout}

InitValidate ==
    /\ req \in ValidateRequests
    /\ pc = "ready"
    /\ calls = <<>>
    /\ resp = [Errors |-> <<>>]
    /\ hostErr = <<>>
    /\ tracker = EmptyTracker
    /\ history = <<>>

ValidateConfig ==
    /\ pc = "ready"
    /\ req.hook = "Validate"
    /\ \E orgReply \in OrgReplies : Return(Validate(req.cfg, orgReply))

NextValidate == ValidateConfig

SpecValidate == InitValidate /\ [][NextValidate]_vars

\* Both entry points: the host calls Execute or Validate.
InitPlugin == Init \/ InitValidate

NextPlugin ==
    \/ ExecutePrePublish
    \/ ExecutePostPublish
    \/ ExecuteOnError
    \/ ExecuteOtherHook
    \/ ValidateConfig

SpecPlugin == InitPlugin /\ [][NextPlugin]_vars

----------------------------------------------------------------------------
(* Successive invocations against one remote tracker.                        *)
(* The tracker keeps one release record per version: it rejects the creation *)
(* of a release whose version exists, serves get-release for the versions    *)
(* that exist, and appends a deploy record for every create-deploy it        *)
(* accepts. A request may also be lost before it reaches the tracker         *)
(* ("down"), or be carried out with an answer the client cannot read         *)
(* ("garbled").                                                              *)

Faults == {"none", "down", "garbled"}

ReleaseRecord(version) ==
    [Version |-> version, URL |-> <<"https://sentry.io/releases/">> \o version,
     DateCreated |-> Now, Environment |-> <<>>]

HasRelease(tr, version) ==
    \E i \in 1..Len(tr.releases) : tr.releases[i] = version

\* The tracker's answer to one request, from its state before the request.
TrackerAnswer(tr, op, version, environment) ==
    IF op = "create-release"
    THEN IF HasRelease(tr, version) THEN Conflict
         ELSE Reply("ok", <<>>, 201, <<"{release}">>, TRUE, <<>>,
                    ReleaseRecord(version))
    ELSE IF ~HasRelease(tr, version) THEN NotFound
    ELSE IF op = "get-release"
    THEN Reply("ok", <<>>, 200, <<"{release}">>, TRUE, <<>>, ReleaseRecord(version))
    ELSE IF op = "create-deploy"
    THEN Reply("ok", <<>>, 201, <<"{deploy}">>, TRUE, <<>>,
               [ZeroObj EXCEPT !.Environment = environment])
    ELSE Reply("ok", <<>>, 200, <<"{}">>, TRUE, <<>>, ZeroObj)

\* What the client receives for that request under a fault.
TrackerReply(tr, op, version, environment, fault) ==
    LET answer == TrackerAnswer(tr, op, version, environment) IN
    IF fault = "down" THEN Timeout
    ELSE IF fault = "garbled" /\ answer.status < StatusErrorFloor THEN OkNotJson
    ELSE answer

\* The tracker's state after one request that reached it.
TrackerEffect(tr, call, fault) ==
    IF fault = "down" THEN tr
    ELSE IF call.op = "create-release" /\ ~HasRelease(tr, call.version)
    THEN [tr EXCEPT !.releases = Append(@, call.version)]
    ELSE IF call.op = "create-deploy" /\ HasRelease(tr, call.version)
    THEN [tr EXCEPT !.deploys =
             Append(@, [version |-> call.version,
                        environment |-> call.deploy.Environment])]
    ELSE tr

\* The tracker's state after the calls of one invocation, in their order.
RECURSIVE TrackerAfter(_, _, _)
TrackerAfter(tr, issued, faults) ==
    IF issued = <<>> THEN tr
    ELSE TrackerAfter(TrackerEffect(tr, issued[1], faults[issued[1].op]),
                      Tail(issued), faults)

TrackedEvent ==
    [Version |-> <<"1.2.3">>, TagName |-> <<"v1.2.3">>,
     CommitSHA |-> SubSeq(ShaChars, 1, ShortSHALen + 1),
     Branch |-> <<"main">>, Changes |-> FeatAndFix]

TrackedConfigs ==
    { DefaultConfig,
      [DefaultConfig EXCEPT !.VersionFormat = TplTag],
      [DefaultConfig EXCEPT !.CreateDeploy = FALSE] }

TrackedRequests ==
    { Request(h, c, TrackedEvent, d) :
        h \in {"PrePublish", "PostPublish"}, c \in TrackedConfigs, d \in BOOLEAN }

\* What the host keeps of one finished invocation.
Summary(r, ret, faults) ==
    [hook     |-> r.hook,
     live     |-> ~r.dryRun,
     version  |-> formatVersion(r.cfg.VersionFormat, r.ctx).str,
     environment |-> r.cfg.Deploy.Environment,
     success  |-> ret.resp.Success,
     deployed |-> \E i \in 1..Len(ret.calls) :
                     ret.calls[i].op = "create-deploy" /\ ret.calls[i].err = <<>>,
     clean    |-> \A i \in 1..Len(ret.calls) : faults[ret.calls[i].op] = "none"]

\* The invocation ends: the response reaches the host and the tracker is as
\* the calls left it.
Finish(ret, faults) ==
    /\ resp' = ret.resp
    /\ hostErr' = ret.err
    /\ calls' = ret.calls
    /\ tracker' = TrackerAfter(tracker, ret.calls, faults)
    /\ history' = Append(history, Summary(req, ret, faults))
    /\ pc' = "done"
    /\ UNCHANGED req

InitTracked ==
    /\ req \in TrackedRequests
    /\ pc = "ready"
    /\ calls = <<>>
    /\ resp = NoResponse
    /\ hostErr = <<>>
    /\ tracker \in {EmptyTracker,
                    [EmptyTracker EXCEPT !.releases = << <<"1.2.3">> >>]}
    /\ history = <<>>

TrackedPrePublish ==
    /\ pc = "ready"
    /\ req.hook = "PrePublish"
    /\ \E createFault \in Faults, getFault \in Faults :
         LET v       == formatVersion(req.cfg.VersionFormat, req.ctx).str
             faults  == [f \in {"create-release", "get-release"} |->
                           IF f = "create-release" THEN createFault ELSE getFault]
             create  == TrackerReply(tracker, "create-release", v, <<>>, createFault)
             created == TrackerEffect(tracker,
                           Call("create-release", v, <<>>, <<>>, NoDeploy,
                                [err |-> <<>>, obj |-> ZeroObj]),
                           createFault)
             get     == TrackerReply(created, "get-release", v, <<>>, getFault)
         IN  Finish(Execute(req, [create |-> create, get |-> get]), faults)

TrackedPostPublish ==
    /\ pc = "ready"
    /\ req.hook = "PostPublish"
    /\ \E commitsFault \in {"none", "down"}, deployFault \in Faults,
          finalizeFault \in {"none", "down"} :
         LET v      == formatVersion(req.cfg.VersionFormat, req.ctx).str
             env    == req.cfg.Deploy.Environment
             faults == [f \in {"set-commits", "create-deploy", "finalize"} |->
                          IF f = "set-commits" THEN commitsFault
                          ELSE IF f = "create-deploy" THEN deployFault
                          ELSE finalizeFault]
         IN  Finish(Execute(req,
                      [commits  |-> TrackerReply(tracker, "set-commits", v, env,
                                                 commitsFault),
                       deploy   |-> TrackerReply(tracker, "create-deploy", v, env,
                                                 deployFault),
                       finalize |-> TrackerReply(tracker, "finalize", v, env,
                                                 finalizeFault)]),
                    faults)

\* The host issues its next request.
NextInvocation ==
    /\ pc = "done"
    /\ Len(history) < MaxInvocations
    /\ req' \in TrackedRequests
    /\ pc' = "ready"
    /\ calls' = <<>>
    /\ resp' = NoResponse
    /\ UNCHANGED <<hostErr, tracker, history>>

NextTracked ==
    \/ TrackedPrePublish
    \/ TrackedPostPublish
    \/ NextInvocation

SpecTracked == InitTracked /\ [][NextTracked]_vars

----------------------------------------------------------------------------
(* extractCommits on its own, over every event with up to MaxCommits changes *)
(* per category.                                                             *)

CommitPool ==
    { Commit(<<"abc123">>, <<"Add feature">>), Commit(<<"def456">>, <<"Fix bug">>) }

CommitLists == SeqsUpTo(CommitPool, MaxCommits)

ExtractChanges ==
    {NilChanges}
    \cup { ChangeSet(TRUE, fe, fi, br, ot) :
             fe \in CommitLists, fi \in CommitLists,
             br \in CommitLists, ot \in CommitLists }

Repositories == {<<>>, <<"org/repo">>}

ExtractRequests ==
    { [hook |-> "extractCommits",
       cfg  |-> [DefaultConfig EXCEPT !.Commits.Repository = repo],
       ctx  |-> [TrackedEvent EXCEPT !.Changes = ch]] :
        repo \in Repositories, ch \in ExtractChanges }

InitExtract ==
    /\ req \in ExtractRequests
    /\ pc = "ready"
    /\ calls = <<>>
    /\ resp = <<>>
    /\ hostErr = <<>>
    /\ tracker = EmptyTracker
    /\ history = <<>>

ExtractCommits ==
    /\ pc = "ready"
    /\ req.hook = "extractCommits"
    /\ resp' = extractCommits(req.cfg, req.ctx)
    /\ pc' = "done"
    /\ UNCHANGED <<req, calls, hostErr, tracker, history>>

NextExtract == ExtractCommits

SpecExtract == InitExtract /\ [][NextExtract]_vars

----------------------------------------------------------------------------
(* shortSHA on its own, over every SHA of up to MaxShaLen characters, and    *)
(* the value the version template receives for its ShortSHA field.           *)

ShaAlphabet == {"a", "1"}

AllShas == SeqsUpTo(ShaAlphabet, MaxShaLen)

ShortSHARequests ==
    { [hook |-> "shortSHA", cfg |-> DefaultConfig,
       ctx  |-> [TrackedEvent EXCEPT !.CommitSHA = sha]] : sha \in AllShas }

InitShortSHA ==
    /\ req \in ShortSHARequests
    /\ pc = "ready"
    /\ calls = <<>>
    /\ resp = [short |-> <<>>, field |-> <<>>, version |-> <<>>]
    /\ hostErr = <<>>
    /\ tracker = EmptyTracker
    /\ history = <<>>

ShortenSHA ==
    /\ pc = "ready"
    /\ req.hook = "shortSHA"
    /\ resp' = [short   |-> shortSHA(req.ctx.CommitSHA),
                field   |-> TemplateData(req.ctx).ShortSHA,
                version |-> formatVersion(TplVersionSha, req.ctx).str]
    /\ pc' = "done"
    /\ UNCHANGED <<req, calls, hostErr, tracker, history>>

NextShortSHA == ShortenSHA

SpecShortSHA == InitShortSHA /\ [][NextShortSHA]_vars

----------------------------------------------------------------------------
(* SentryClient.request on its own, over the responses the HTTP client can   *)
(* hand back. The client follows redirects that name a location; 300 and 304 *)
(* are returned to the caller as they are.                                   *)

Statuses == {200, 201, 204, 300, 304, 400, 401, 404, 409, 500, 503}

\* The body of a response: its text, whether it is JSON, its "detail" field.
Bodies ==
    { [text |-> <<>>, json |-> FALSE, detail |-> <<>>],
      [text |-> <<"{detail}">>, json |-> TRUE, detail |-> <<"Invalid token">>],
      [text |-> <<"{}">>, json |-> TRUE, detail |-> <<>>],
      [text |-> <<"Bad Gateway">>, json |-> FALSE, detail |-> <<>>] }

Responses ==
    { Reply("ok", <<>>, st, b.text, b.json, b.detail,
            IF b.json THEN ReleaseA ELSE ZeroObj) :
        st \in Statuses, b \in Bodies }

RequestCalls ==
    { [hook |-> "request", reply |-> r, wantResult |-> w] :
        r \in Responses \cup {Timeout, ReadFailed, BadURL}, w \in BOOLEAN }

InitRequest ==
    /\ req \in RequestCalls
    /\ pc = "ready"
    /\ calls = <<>>
    /\ resp = [err |-> <<>>, obj |-> ZeroObj]
    /\ hostErr = <<>>
    /\ tracker = EmptyTracker
    /\ history = <<>>

DoRequest ==
    /\ pc = "ready"
    /\ req.hook = "request"
    /\ resp' = request(req.reply, req.wantResult)
    /\ pc' = "done"
    /\ UNCHANGED <<req, calls, hostErr, tracker, history>>

NextRequest == DoRequest

SpecRequest == InitRequest /\ [][NextRequest]_vars

----------------------------------------------------------------------------
(* Vocabulary of the properties *)

Done == pc = "done"

IsPre  == req.hook = "PrePublish"
IsPost == req.hook = "PostPublish"

LivePre  == Done /\ IsPre /\ ~req.dryRun
LivePost == Done /\ IsPost /\ ~req.dryRun

\* The template names only text and the three fields the plugin provides.
TemplateIsValid ==
    \A i \in 1..Len(req.cfg.VersionFormat) :
        LET n == req.cfg.VersionFormat[i] IN
        \/ n.t = "text"
        \/ n.t = "field" /\ n.s \in {"Version", "TagName", "ShortSHA"}

\* The version each valid template of the model stands for, written out.
ExpectedVersion ==
    LET sha   == req.ctx.CommitSHA
        short == [i \in 1..(IF Len(sha) < 7 THEN Len(sha) ELSE 7) |-> sha[i]]
    IN  CASE req.cfg.VersionFormat = TplVersion    -> req.ctx.Version
          [] req.cfg.VersionFormat = TplVersionSha ->
                 req.ctx.Version \o <<"-">> \o short
          [] req.cfg.VersionFormat = TplTag        -> <<"rel-">> \o req.ctx.TagName
          [] OTHER                                 -> <<>>

\* The entries strings.Join put into a message, recovered at the separator.
RECURSIVE SplitFrom(_, _, _)
SplitFrom(msg, i, cur) ==
    IF i > Len(msg) THEN <<cur>>
    ELSE IF msg[i] = "; " THEN <<cur>> \o SplitFrom(msg, i + 1, <<>>)
    ELSE SplitFrom(msg, i + 1, Append(cur, msg[i]))

Entries(msg) == IF msg = <<>> THEN <<>> ELSE SplitFrom(msg, 1, <<>>)

Failed(c) == c.err # <<>>

Ops(cs) == [i \in 1..Len(cs) |-> cs[i].op]

WarningPrefix(op) ==
    CASE op = "set-commits"   -> "Warning: Failed to set commits: "
      [] op = "create-deploy" -> "Warning: Failed to create deploy: "
      [] op = "finalize"      -> "Warning: Failed to finalize release: "
      [] OTHER                -> "Warning: "

IsWarning(e) ==
    /\ e # <<>>
    /\ e[1] \in { WarningPrefix(op) : op \in {"set-commits", "create-deploy", "finalize"} }

\* The entry a post-publish sub-step leaves in the message for its call.
EntryOf(c) ==
    IF Failed(c) THEN <<WarningPrefix(c.op)>> \o c.err
    ELSE CASE c.op = "set-commits"   ->
                <<"Associated ", ToString(Len(c.commits)), " commits">>
           [] c.op = "create-deploy" -> <<"Created deploy: ">> \o c.obj.Environment
           [] c.op = "finalize"      -> <<"Finalized release">>
           [] OTHER                  -> <<>>

\* The event carries at least one categorized change.
HasChanges ==
    /\ req.ctx.Changes.present
    /\ Len(req.ctx.Changes.Features) + Len(req.ctx.Changes.Fixes)
         + Len(req.ctx.Changes.Breaking) + Len(req.ctx.Changes.Other) > 0

\* The sub-steps the configuration enables, in the order of the handler.
EnabledOps ==
       (IF req.cfg.SetCommits THEN <<"set-commits">> ELSE <<>>)
    \o (IF req.cfg.CreateDeploy THEN <<"create-deploy">> ELSE <<>>)
    \o (IF req.cfg.Finalize THEN <<"finalize">> ELSE <<>>)

\* The same, with commit association due only when there are commits.
DueOps ==
       (IF req.cfg.SetCommits /\ HasChanges THEN <<"set-commits">> ELSE <<>>)
    \o (IF req.cfg.CreateDeploy THEN <<"create-deploy">> ELSE <<>>)
    \o (IF req.cfg.Finalize THEN <<"finalize">> ELSE <<>>)

----------------------------------------------------------------------------
(* C1 *)

\* C1 as stated: a dry-run pre-publish or post-publish issues no remote call
\* and returns Success = true, for every configuration and release event.
C1_DryRunAlwaysSucceeds ==
    (Done /\ (IsPre \/ IsPost) /\ req.dryRun)
        => (calls = <<>> /\ resp.Success)

\* C1 as amended: a dry-run pre-publish or post-publish issues no remote call
\* for every configuration and release event, and returns Success = true
\* exactly when the version template renders; with a template that does not
\* render it returns Success = false.
C1_DryRunNoCalls ==
    (Done /\ (IsPre \/ IsPost) /\ req.dryRun)
        => /\ calls = <<>>
           /\ resp.Success <=> TemplateIsValid

C1_Witness ==
    /\ Done /\ IsPre /\ req.dryRun /\ TemplateIsValid
    /\ resp.Success
    /\ resp.Message # <<>>
    /\ resp.Message[1] = "Would create Sentry release '"
    /\ calls = <<>>

----------------------------------------------------------------------------
(* C2 *)

\* C2: a live post-publish whose template renders has Success = true and an
\* empty Error whatever set-commits, create-deploy and finalize return, and
\* each failed call appears in the message as a "Warning: ..." entry carrying
\* its error, the message holding no other warning.
C2_PostPublishNeverFails ==
    (LivePost /\ TemplateIsValid)
        => /\ resp.Success
           /\ resp.Error = <<>>
           /\ LET warnings == SelectSeq(Entries(resp.Message), IsWarning)
                  failed   == SelectSeq(calls, Failed)
              IN  /\ Len(warnings) = Len(failed)
                  /\ \A i \in 1..Len(failed) :
                        warnings[i] = <<WarningPrefix(failed[i].op)>> \o failed[i].err

C2_Witness ==
    /\ LivePost /\ TemplateIsValid
    /\ Len(calls) = 3
    /\ Failed(calls[1]) /\ ~Failed(calls[2]) /\ Failed(calls[3])
    /\ resp.Success

----------------------------------------------------------------------------
(* C3 *)

\* C3: in a live pre-publish, when create-release failed and the get-release
\* that followed succeeded, the result has Success = true and its outputs
\* version, release_url and date_created are those of the fetched release.
C3_FallbackReturnsFetched ==
    (/\ LivePre
     /\ Len(calls) = 2
     /\ calls[1].op = "create-release" /\ Failed(calls[1])
     /\ calls[2].op = "get-release" /\ ~Failed(calls[2]))
        => /\ resp.Success
           /\ resp.Error = <<>>
           /\ resp.Outputs = [version      |-> calls[2].obj.Version,
                              release_url  |-> calls[2].obj.URL,
                              date_created |-> calls[2].obj.DateCreated]

C3_Witness ==
    /\ LivePre
    /\ Len(calls) = 2
    /\ Failed(calls[1]) /\ ~Failed(calls[2])
    /\ calls[2].obj = ReleaseB
    /\ resp.Success
    /\ resp.Outputs.release_url = ReleaseB.URL

----------------------------------------------------------------------------
(* C4 *)

\* C4: a live pre-publish whose template renders issues create-release
\* first, issues get-release exactly when create-release failed and nothing
\* else, reports Success = false exactly when both calls failed, and then
\* reports the error of create-release, not that of get-release.
C4_FailsOnlyWhenBothFail ==
    (LivePre /\ TemplateIsValid)
        => /\ Len(calls) \in {1, 2}
           /\ calls[1].op = "create-release"
           /\ (Len(calls) = 2) <=> Failed(calls[1])
           /\ Len(calls) = 2 => calls[2].op = "get-release"
           /\ ~resp.Success <=> (Len(calls) = 2 /\ Failed(calls[1]) /\ Failed(calls[2]))
           /\ ~resp.Success =>
                 resp.Error = <<"Failed to create release: ">> \o calls[1].err

C4_Witness ==
    /\ LivePre /\ TemplateIsValid
    /\ Len(calls) = 2
    /\ Failed(calls[1]) /\ Failed(calls[2])
    /\ calls[1].err # calls[2].err
    /\ ~resp.Success

----------------------------------------------------------------------------
(* C5 *)

\* C5: in pre-publish and in post-publish, dry-run or live, a version
\* template that fails to render gives a result with Success = false whose
\* Error carries the template error, and no remote call is issued.
C5_RenderFailureAborts ==
    (Done /\ (IsPre \/ IsPost) /\ ~TemplateIsValid)
        => /\ ~resp.Success
           /\ formatVersion(req.cfg.VersionFormat, req.ctx).err # <<>>
           /\ resp.Error = <<"Failed to format version: ">>
                              \o formatVersion(req.cfg.VersionFormat, req.ctx).err
           /\ calls = <<>>

C5_Witness ==
    /\ Done /\ IsPost /\ req.dryRun
    /\ req.cfg.VersionFormat = TplBadExec
    /\ ~resp.Success
    /\ resp.Error # <<>>

----------------------------------------------------------------------------
(* C6 *)

\* C6: every remote call of one pre-publish or post-publish invocation is
\* issued with the same version string, the one the version-format template
\* renders from the release event.
C6_OneVersionPerInvocation ==
    (Done /\ (IsPre \/ IsPost))
        => \A i \in 1..Len(calls) : calls[i].version = ExpectedVersion

C6_Witness ==
    /\ LivePost
    /\ req.cfg.VersionFormat = TplVersionSha
    /\ Len(req.ctx.CommitSHA) > ShortSHALen
    /\ Ops(calls) = <<"set-commits", "create-deploy", "finalize">>
    /\ calls[2].version # req.ctx.Version

----------------------------------------------------------------------------
(* C7 *)

NoDuplicates(seq) ==
    \A i, j \in 1..Len(seq) : i # j => seq[i] # seq[j]

Range(seq) == { seq[i] : i \in 1..Len(seq) }

\* C7: the project list passed to create-release is the union of the
\* 'projects' list and the singular 'project', has no duplicate entry, keeps
\* the order of the 'projects' list, and has the singular project appended
\* last exactly when it is non-empty and not already in the list.
C7_ProjectsUnionNoDuplicates ==
    (LivePre /\ calls # <<>> /\ calls[1].op = "create-release")
        => LET passed == calls[1].projects
               list   == req.cfg.Projects
               single == req.cfg.Project
               added  == single # <<>> /\ single \notin Range(list)
           IN  /\ Range(passed) = Range(list) \cup (IF single = <<>> THEN {} ELSE {single})
               /\ NoDuplicates(passed)
               /\ Len(passed) >= Len(list)
               /\ SubSeq(passed, 1, Len(list)) = list
               /\ passed = (IF added THEN Append(list, single) ELSE list)

----------------------------------------------------------------------------
(* C8 *)

\* C8, for the invocations that return a message (the template renders): a
\* post-publish in which no sub-step produces an outcome (all three toggles
\* disabled, or commit association enabled with no commit to associate and
\* the other two disabled) makes no remote call and returns the message
\* "No actions taken"; the message of a post-publish result is never empty.
C8_NoActionsTaken ==
    (Done /\ IsPost /\ TemplateIsValid)
        => /\ resp.Message # <<>>
           /\ (/\ ~req.cfg.CreateDeploy
               /\ ~req.cfg.Finalize
               /\ (~req.cfg.SetCommits \/ ~HasChanges))
                 => (calls = <<>> /\ resp.Message = <<"No actions taken">>)

----------------------------------------------------------------------------
(* C9 *)

\* The outcome entries of a post-publish message: none when the message is
\* the "No actions taken" sentinel.
OutcomeEntries ==
    IF resp.Message = <<"No actions taken">> THEN <<>> ELSE Entries(resp.Message)

\* C9 as stated: a live post-publish attempts every enabled sub-step, in the
\* order set-commits, create-deploy, finalize, whatever the earlier ones
\* returned, and the message holds one outcome entry per attempted sub-step,
\* in that order.
C9_EveryEnabledStepAttempted ==
    (LivePost /\ TemplateIsValid)
        => /\ Ops(calls) = EnabledOps
           /\ OutcomeEntries = [i \in 1..Len(calls) |-> EntryOf(calls[i])]

\* C9 as amended: a live post-publish attempts create-deploy and finalize
\* when enabled, and set-commits when enabled and the event yields at least
\* one commit, in the order set-commits, create-deploy, finalize, whatever
\* the earlier ones returned; the message holds one outcome entry per
\* attempted sub-step, in that order.
C9_EveryDueStepAttempted ==
    (LivePost /\ TemplateIsValid)
        => /\ Ops(calls) = DueOps
           /\ OutcomeEntries = [i \in 1..Len(calls) |-> EntryOf(calls[i])]

C9_Witness ==
    /\ LivePost /\ TemplateIsValid
    /\ Ops(calls) = <<"set-commits", "create-deploy", "finalize">>
    /\ Failed(calls[1]) /\ ~Failed(calls[2]) /\ ~Failed(calls[3])
    /\ Len(Entries(resp.Message)) = 3
    /\ IsWarning(Entries(resp.Message)[1])

----------------------------------------------------------------------------
(* C10 *)

\* C10: the on-error hook returns Success = true with no error and issues no
\* remote call, for every configuration, release event and dryRun value,
\* also when the version-format template is invalid.
C10_OnErrorIsNoOp ==
    (Done /\ req.hook = "OnError")
        => /\ resp.Success
           /\ resp.Error = <<>>
           /\ hostErr = <<>>
           /\ calls = <<>>

C10_Witness ==
    /\ Done /\ req.hook = "OnError"
    /\ ~TemplateIsValid
    /\ ~req.dryRun
    /\ resp.Success
    /\ calls = <<>>

----------------------------------------------------------------------------
(* C11 *)

IsValidate == req.hook = "Validate"

ErrorFields == [i \in 1..Len(resp.Errors) |-> resp.Errors[i].Field]

\* C11: when the auth token is absent Validate returns exactly the
\* auth-token error, whatever the organization, the projects and the version
\* format are, and makes no remote call.
C11_MissingTokenShortCircuits ==
    (Done /\ IsValidate /\ req.cfg.AuthToken = <<>>)
        => /\ resp.Errors = <<ValidationError("auth_token",
                                 <<"Sentry auth token is required">>)>>
           /\ calls = <<>>

C11_Witness ==
    /\ Done /\ IsValidate
    /\ req.cfg.AuthToken = <<>>
    /\ req.cfg.Org = <<>>
    /\ getProjects(req.cfg) = <<>>
    /\ req.cfg.VersionFormat = TplBadParse
    /\ Len(resp.Errors) = 1

----------------------------------------------------------------------------
(* C12 *)

\* The version format is empty or has no action left unclosed.
FormatParses ==
    \A i \in 1..Len(req.cfg.VersionFormat) : req.cfg.VersionFormat[i].t # "unclosed"

NoProject == req.cfg.Project = <<>> /\ req.cfg.Projects = <<>>

\* The fields of the errors Validate is to report with the token present,
\* given whether the remote check failed.
ExpectedFields(remoteFailed) ==
       (IF req.cfg.Org = <<>> THEN <<"org">> ELSE <<>>)
    \o (IF NoProject THEN <<"project">> ELSE <<>>)
    \o (IF ~FormatParses THEN <<"version_format">> ELSE <<>>)
    \o (IF remoteFailed THEN <<"auth_token">> ELSE <<>>)

\* C12: Validate issues one get-organization call exactly when the token and
\* the organization are both present and no other call; it records an
\* auth_token error exactly when that call fails; and with the token present
\* the organization, project and version-format checks each add their own
\* error, none of them hiding the next.
C12_ValidateChecks ==
    (Done /\ IsValidate)
        => /\ Len(calls) <= 1
           /\ (calls # <<>>) <=> (req.cfg.AuthToken # <<>> /\ req.cfg.Org # <<>>)
           /\ calls # <<>> => calls[1].op = "get-organization"
           /\ req.cfg.AuthToken # <<>> =>
                 ErrorFields = ExpectedFields(calls # <<>> /\ Failed(calls[1]))

C12_Witness ==
    /\ Done /\ IsValidate
    /\ req.cfg.AuthToken # <<>>
    /\ ErrorFields = <<"project", "version_format", "auth_token">>
    /\ Len(calls) = 1

\* The deploy records the tracker holds for a version and an environment.
DeployRecords(v, e) ==
    { i \in 1..Len(tracker.deploys) :
        tracker.deploys[i].version = v /\ tracker.deploys[i].environment = e }

\* An invocation C13 speaks of: live post-publish whose create-deploy call
\* succeeded, for version v and environment e.
Deployed(h, v, e) ==
    /\ h.hook = "PostPublish"
    /\ h.live
    /\ h.deployed
    /\ h.version = v
    /\ h.environment = e

\* C13: deploy creation is not deduplicated. When every invocation so far was
\* a live post-publish whose create-deploy call succeeded, all for the same
\* version and environment, the tracker holds as many deploy records for
\* that version and environment as there were invocations.
C13_DeployPerInvocation ==
    \A i \in 1..Len(history) :
        LET v == history[i].version
            e == history[i].environment
        IN  (\A j \in 1..Len(history) : Deployed(history[j], v, e))
            => Cardinality(DeployRecords(v, e)) = Len(history)

C13_Witness ==
    /\ Len(history) >= 2
    /\ \A j \in 1..Len(history) :
         Deployed(history[j], history[1].version, history[1].environment)
    /\ Cardinality(DeployRecords(history[1].version, history[1].environment))
         = Len(history)

\* The release records the tracker holds for a version.
ReleaseRecords(v) ==
    { i \in 1..Len(tracker.releases) : tracker.releases[i] = v }

\* A live pre-publish that met no fault on the way to the tracker or back.
CleanLivePre(h) ==
    /\ h.hook = "PrePublish"
    /\ h.live
    /\ h.clean

\* C15: two live pre-publish invocations in sequence for the same rendered
\* version, against the tracker that rejects the creation of an existing
\* version and serves get-release for it, both return Success = true, and
\* the tracker holds exactly one release record for that version.
C15_PrePublishTwice ==
    \A i \in 1..(Len(history) - 1) :
        ( /\ CleanLivePre(history[i])
          /\ CleanLivePre(history[i + 1])
          /\ history[i].version = history[i + 1].version )
        => /\ history[i].success
           /\ history[i + 1].success
           /\ Cardinality(ReleaseRecords(history[i].version)) = 1

C15_Witness ==
    /\ Len(history) = 2
    /\ CleanLivePre(history[1])
    /\ CleanLivePre(history[2])
    /\ history[1].version = history[2].version
    /\ history[2].success
    /\ Ops(calls) = <<"create-release", "get-release">>
    /\ Failed(calls[1])
    /\ Cardinality(ReleaseRecords(history[1].version)) = 1

RemoteOps ==
    {"create-release", "get-release", "set-commits", "create-deploy",
     "finalize", "get-organization"}

CallCount(op) == Cardinality({ i \in 1..Len(calls) : calls[i].op = op })

\* No operation is requested twice within the invocation.
NoRetry == \A op \in RemoteOps : CallCount(op) <= 1

\* A failed post-publish call left its warning in a successful response.
Absorbed(c) ==
    /\ resp.Success
    /\ \E i \in 1..Len(Entries(resp.Message)) :
         Entries(resp.Message)[i] = <<WarningPrefix(c.op)>> \o c.err

\* A failed pre-publish call made the invocation fail with an error message.
Surfaced(c) ==
    /\ ~resp.Success
    /\ resp.Error # <<>>

\* A failed get-organization is a validation error of the response.
SurfacedByValidate(c) ==
    \E i \in 1..Len(resp.Errors) :
        /\ resp.Errors[i].Field = "auth_token"
        /\ resp.Errors[i].Message =
             <<"Failed to authenticate with Sentry: ">> \o c.err

\* C14 as stated: no operation is requested twice within one invocation, and
\* every failed call is either absorbed as a warning (post-publish) or
\* surfaced as the failure of the invocation (pre-publish, validation).
C14_FailedCallSurfaced ==
    Done =>
        /\ NoRetry
        /\ \A i \in 1..Len(calls) :
             Failed(calls[i]) =>
                IF IsPost THEN Absorbed(calls[i])
                ELSE IF IsPre THEN Surfaced(calls[i])
                ELSE IsValidate /\ SurfacedByValidate(calls[i])

\* C14 as amended: no operation is requested twice within one invocation; a
\* failed post-publish call is absorbed as a warning and a failed
\* get-organization is a validation error; in pre-publish a failed
\* create-release is followed by one get-release, and is surfaced as the
\* failure of the invocation exactly when that get-release fails too;
\* when the get-release succeeds the invocation succeeds.
C14_FailedCallSurfacedUnlessFetched ==
    Done =>
        /\ NoRetry
        /\ \A i \in 1..Len(calls) :
             Failed(calls[i]) =>
                IF IsPost THEN Absorbed(calls[i])
                ELSE IF IsPre
                THEN /\ Ops(calls) = <<"create-release", "get-release">>
                     /\ IF Failed(calls[2])
                        THEN Surfaced(calls[1])
                        ELSE resp.Success
                ELSE IsValidate /\ SurfacedByValidate(calls[i])
        /\ (IsPre /\ calls # <<>> /\ ~Failed(calls[1]))
              => Ops(calls) = <<"create-release">>

C14_Witness ==
    /\ LivePre
    /\ Ops(calls) = <<"create-release", "get-release">>
    /\ Failed(calls[1])
    /\ ~Failed(calls[2])
    /\ resp.Success

\* The changes of one category of the event; none when the event has no
\* categorized changes at all.
Category(name) ==
    IF req.ctx.Changes.present THEN req.ctx.Changes[name] ELSE <<>>

\* The records of the result from position first on are the changes of the
\* category, in their order.
HoldsCategory(name, first) ==
    \A k \in 1..Len(Category(name)) :
        /\ resp[first + k].ID = Category(name)[k].Hash
        /\ resp[first + k].Message = Category(name)[k].Description
        /\ resp[first + k].Repository =
             (IF req.cfg.Commits.Repository = <<>>
              THEN <<"unknown">>
              ELSE req.cfg.Commits.Repository)

\* C16: commit extraction returns one record per change of the event: the
\* features, then the fixes, then the breaking changes, then the others,
\* each category in its own order; a record's id is the hash, its message
\* the description, its repository the configured one or "unknown"; the
\* result is empty when the event carries no categorized change.
C16_ExtractCommits ==
    (Done /\ req.hook = "extractCommits") =>
        LET nFe == Len(Category("Features"))
            nFi == Len(Category("Fixes"))
            nBr == Len(Category("Breaking"))
            nOt == Len(Category("Other"))
        IN  /\ Len(resp) = nFe + nFi + nBr + nOt
            /\ HoldsCategory("Features", 0)
            /\ HoldsCategory("Fixes", nFe)
            /\ HoldsCategory("Breaking", nFe + nFi)
            /\ HoldsCategory("Other", nFe + nFi + nBr)
            /\ (nFe + nFi + nBr + nOt = 0 => resp = <<>>)

C16_Witness ==
    /\ Done
    /\ req.hook = "extractCommits"
    /\ req.cfg.Commits.Repository = <<>>
    /\ Len(Category("Features")) = 2
    /\ Category("Features")[1] # Category("Features")[2]
    /\ Len(Category("Fixes")) = 1
    /\ Len(Category("Breaking")) = 1
    /\ Category("Fixes") # Category("Breaking")
    /\ Len(Category("Other")) = 1
    /\ Len(resp) = 5
    /\ resp[5].Repository = <<"unknown">>

\* C17: shortSHA(s) is the prefix of s of length min(7, len(s)): s itself
\* when s has at most 7 characters, its first 7 characters otherwise; the
\* ShortSHA field of the version template is that value.
C17_ShortSHAIsPrefix ==
    (Done /\ req.hook = "shortSHA") =>
        LET s == req.ctx.CommitSHA
            n == IF Len(s) <= 7 THEN Len(s) ELSE 7
        IN  /\ Len(resp.short) = n
            /\ \A i \in 1..n : resp.short[i] = s[i]
            /\ (Len(s) <= 7 => resp.short = s)
            /\ resp.field = resp.short
            /\ resp.version = req.ctx.Version \o <<"-">> \o resp.short

C17_Witness ==
    /\ Done
    /\ req.hook = "shortSHA"
    /\ Len(req.ctx.CommitSHA) = 8
    /\ req.ctx.CommitSHA[8] # req.ctx.CommitSHA[7]
    /\ Len(resp.short) = 7
    /\ resp.field = resp.short

\* The error of a response with a failure status: the detail of a JSON body
\* when it has one, the raw body otherwise, and the status code.
StatusError(reply) ==
    <<"API error: ">>
    \o (IF reply.json /\ reply.detail # <<>> THEN reply.detail ELSE reply.text)
    \o <<" (status ", ToString(reply.status), ")">>

\* C18: every response whose status is not 2xx makes the client operation
\* return an error carrying the status code and the detail of a JSON body,
\* or the raw body when there is none; no such response counts as success.
C18_NonSuccessStatusIsError ==
    ( /\ Done
      /\ req.hook = "request"
      /\ req.reply.stage = "ok"
      /\ ~(req.reply.status >= 200 /\ req.reply.status < 300) )
    => /\ resp.err # <<>>
       /\ resp.err = StatusError(req.reply)

\* The hooks the plugin implements.
ImplementedHooks == {"PrePublish", "PostPublish", "OnError"}

\* C19: every Execute call, whatever the hook, the configuration, the event,
\* dryRun and the outcome of the remote calls, returns a response and no
\* error to the host; Success is false exactly when Error is non-empty; a
\* hook the plugin does not implement yields Success = true and no remote
\* call.
C19_ExecuteAlwaysResponds ==
    Done =>
        /\ hostErr = <<>>
        /\ resp # NoResponse
        /\ resp.Success \in BOOLEAN
        /\ (~resp.Success <=> resp.Error # <<>>)
        /\ (req.hook \notin ImplementedHooks
              => /\ resp.Success
                 /\ calls = <<>>
                 /\ resp.Message = <<"Hook ", req.hook, " not implemented">>)

C19_Witness ==
    /\ Done
    /\ req.hook = "PostPlan"
    /\ ~req.dryRun
    /\ hostErr = <<>>
    /\ resp.Success
    /\ resp.Error = <<>>
    /\ calls = <<>>

\* The sub-step a "Would ..." entry of a dry-run message announces.
AnnouncedBy(e) ==
    IF e = <<>> THEN "none"
    ELSE CASE e[1] = "Would associate commits with release"  -> "set-commits"
           [] e[1] = "Would create deploy for environment: " -> "create-deploy"
           [] e[1] = "Would finalize release"                -> "finalize"
           [] OTHER                                          -> "none"

\* The sub-steps the response of a dry run announces.
AnnouncedOps ==
    { AnnouncedBy(Entries(resp.Message)[i]) :
        i \in 1..Len(Entries(resp.Message)) } \ {"none"}

\* The operations a live post-publish of the same request calls.
LiveOps(replies) ==
    LET live == handlePostPublish(req.cfg, req.ctx, FALSE, replies).calls IN
    { live[i].op : i \in 1..Len(live) }

PostReplyChoices ==
    [commits : PostReplies, deploy : PostReplies, finalize : PostReplies]

\* C20 as stated: the sub-steps a dry-run post-publish announces are exactly
\* those a live post-publish of the same configuration and event calls,
\* also when commit association is enabled and there is no commit.
C20_DryRunAnnouncesLiveCalls ==
    (Done /\ IsPost /\ req.dryRun) =>
        \A replies \in PostReplyChoices : AnnouncedOps = LiveOps(replies)

\* C20 as amended: every sub-step a live post-publish calls is announced by
\* the dry run of the same configuration and event; the dry run announces
\* each enabled sub-step, so the two sets differ exactly when commit
\* association is enabled and the event has no change: the dry run then
\* announces set-commits and the live run does not call it.
C20_DryRunAnnouncesEnabledSteps ==
    (Done /\ IsPost /\ req.dryRun) =>
        \A replies \in PostReplyChoices :
            /\ LiveOps(replies) \subseteq AnnouncedOps
            /\ AnnouncedOps \ LiveOps(replies) =
                 (IF TemplateIsValid /\ req.cfg.SetCommits /\ ~HasChanges
                  THEN {"set-commits"} ELSE {})
            /\ (TemplateIsValid => AnnouncedOps = Range(EnabledOps))

C20_Witness ==
    /\ Done /\ IsPost /\ req.dryRun
    /\ TemplateIsValid
    /\ req.cfg.SetCommits /\ ~HasChanges
    /\ req.cfg.Finalize
    /\ "set-commits" \in AnnouncedOps
    /\ \A replies \in PostReplyChoices : "set-commits" \notin LiveOps(replies)
    /\ \A replies \in PostReplyChoices : "finalize" \in LiveOps(replies)

====
